---- MODULE Spec2Model ----
(***************************************************************************)
(* State-machine model of the match server's connection handling:          *)
(* the Connect / Reconnect handshakes of the protocol dispatcher           *)
(* (src/src/tcp/protocol.rs), the per-client session and its two tasks     *)
(* (src/src/tcp/client.rs), the broadcast pump and the bounded fan-out     *)
(* channel (src/src/tcp/server.rs, src/src/tcp/protocol.rs).               *)
(*                                                                         *)
(* Two revisions of the session are modelled, because the repository holds *)
(* both: Spec follows Client as written in src/src/tcp/client.rs (no       *)
(* missed queue); SpecQ follows the session protocol.rs is written         *)
(* against (missed_packets, reconnect), whose own source is not in the     *)
(* repository snapshot and is taken from the specification document.       *)
(***************************************************************************)
EXTENDS Integers, Sequences, FiniteSets, TLC

VARIABLES
    players,    \* ServerInstance.players: player_id -> session index (0 = no entry)
    clients,    \* every Client built so far, in creation order
    published,  \* number of packets sent on the broadcast channel so far
    nextAddr,   \* next fresh transport (accepted TCP stream) identity
    hands,      \* game state: hand_size of every PlayerView
    buffer,     \* the bytes a read of the read loop returned, not yet handled
    reply,      \* what the handling of the last buffer computed and wrote
    game,       \* GameInstance / GameState: views, card caches, flag, pump
    play,       \* what the handling of the last PlayCard request did
    emitted,    \* the header and payload size Packet::wrap_packet emitted last
    context,    \* the LuaContext built last, with the game it was built from
    pc,         \* the next instruction of every task (0: not spawned)
    held,       \* the lock guards every task holds, in the order it obtained them
    waiters,    \* the tasks that wait for a lock, in the order they asked
    last        \* what the last step did and returned

vars == <<players, clients, published, nextAddr, hands, buffer, reply, game,
         play, emitted, context, pc, held, waiters, last>>

---------------------------------------------------------------------------
(* Bounds of the exploration *)

\* Spec: the handshakes, with few broadcasts
MaxSessions == 2
MaxBroadcasts == 1
\* SpecB: the fan-out channel, with enough broadcasts to overrun it
MaxSessionsB == 1
MaxBroadcastsB == 12
\* SpecQ: the missed queue, with enough broadcasts to overflow it
MaxSessionsQ == 1
MaxBroadcastsQ == 31
\* SpecQ: handshakes are explored while at most this many packets are published
MaxConnectAt == 1
\* SpecQ: the pump runs at most this many packets ahead of a subscriber
MaxBacklog == 1
\* SpecQ: successful reconnections explored
MaxReconnects == 1
\* SpecQ: a transport failure is explored after at most this many successful
\* writes of a subscriber step (and with no failure at all)
MaxPartial == 1
\* SpecW: the read path, one session, payloads of at most this many bytes
MaxSessionsW == 1
MaxPayloadLen == 2
\* SpecW: the first MaxWrites results of write_all are explored; every later
\* write succeeds
MaxWrites == 3
\* SpecG: the packets the pumps publish
MaxBroadcastsG == 2
\* SpecL: the broadcasts of the pump
MaxBroadcastsL == 2
\* SpecP: the short payloads are the ones of 0..MaxShortLen bytes
MaxShortLen == 4

(* Program constants *)

ChannelCapacity == 10
MissedCapacity == 30

---------------------------------------------------------------------------
(* The world outside the server: accounts, tokens, decks *)

PlayerIds == {"p1", "p2", "p3"}

\* The roster of the match: the keys of GameInstance.connected_players.
connected_players == {"p1", "p2"}

Tokens == {"tok1", "tok2", "tok3", "bad"}

DeckIds == {"d1", "nodeck"}

\* The account a bearer token belongs to, as the auth service knows it.
TokenOwner(t) ==
    CASE t = "tok1" -> "p1"
      [] t = "tok2" -> "p2"
      [] t = "tok3" -> "p3"
      [] OTHER -> "nobody"

\* The accounts the auth service reports as banned.
IsBanned(p) == p = "p2"

Malformed == [player_id |-> "-", auth_token |-> "-", current_deck_id |-> "-"]

ConnectionRequests ==
    [player_id : PlayerIds, auth_token : Tokens, current_deck_id : DeckIds]

ReconnectionRequests ==
    [player_id : PlayerIds, auth_token : Tokens, current_deck_id : {"-"}]

Ok(v) == [ok |-> TRUE, err |-> "Ok", val |-> v]
Err(e) == [ok |-> FALSE, err |-> e, val |-> "-"]

---------------------------------------------------------------------------
(* Player: the HTTP calls of the handshake *)

\* GET /api/player/account: PartialPlayerProfile {id, level, username}.
get_player_profile(token) ==
    IF TokenOwner(token) = "nobody"
    THEN Err("UnauthorizedPlayerError")
    ELSE Ok(TokenOwner(token))

\* GET /api/deck/{id}
get_player_deck(deck_id, token) ==
    IF TokenOwner(token) = "nobody" THEN Err("UnauthorizedDeckError")
    ELSE IF deck_id = "nodeck" THEN Err("DeckNotFound")
    ELSE Ok(deck_id)

\* GET /api/auth/verify: AuthenticatedPlayer {player_id, username, is_banned}.
verify_authentication(token) ==
    IF TokenOwner(token) = "nobody" THEN Err("UnauthorizedPlayerError")
    ELSE IF IsBanned(TokenOwner(token)) THEN Err("BannedPlayer")
    ELSE Ok(TokenOwner(token))

\* Player::new_connection: the Player is built from the request's player_id;
\* the profile contributes level and username only.
new_connection(payload) ==
    IF payload = Malformed THEN Err("InvalidPlayerPayload")
    ELSE LET profile == get_player_profile(payload.auth_token) IN
         IF ~profile.ok THEN profile
         ELSE LET deck == get_player_deck(payload.current_deck_id, payload.auth_token) IN
              IF ~deck.ok THEN deck
              ELSE Ok([id |-> payload.player_id, username |-> profile.val])

\* Player::reconnection without the comparison of the two player ids.
reconnection_NoIdCheck(payload) ==
    IF payload = Malformed THEN Err("InvalidPlayerPayload")
    ELSE verify_authentication(payload.auth_token)

\* Player::reconnection
reconnection(payload) ==
    IF payload = Malformed THEN Err("InvalidPlayerPayload")
    ELSE LET profile == verify_authentication(payload.auth_token) IN
         IF ~profile.ok THEN profile
         ELSE IF profile.val # payload.player_id THEN Err("PlayerDiscrepancy")
         ELSE Ok(profile.val)

---------------------------------------------------------------------------
(* The session (Client) and the state after construction *)

Sessions == 1..Len(clients)

NoEvent ==
    [op |-> "init", pid |-> "-", auth |-> "-", res |-> "-", sess |-> 0,
     pkt |-> 0, sent |-> <<>>]

\* op: the handler that ran; pid: the player_id of the request it accepted;
\* auth: the player the auth service named for the token of that request;
\* res: what the handler returned; sess: the session it acted on;
\* pkt: the broadcast packet handled; sent: the packets the step wrote to the
\* session's write half, in the order of the writes.
Event(op, pid, res, sess) ==
    [op |-> op, pid |-> pid, auth |-> "-", res |-> res, sess |-> sess,
     pkt |-> 0, sent |-> <<>>]

ClientNew_Disconnected(addr, player) ==
    [addr |-> addr, connected |-> FALSE,
     player |-> player.id, username |-> player.username,
     missed |-> <<>>, sub |-> published, rx |-> published + 1,
     readTask |-> "spawned", subTask |-> "none", written |-> <<>>]

\* Client::new: the session starts connected, with a receiver subscribed to
\* the broadcast channel at the moment of construction.
\* sub: the packets already published when the receiver subscribed;
\* rx: the next packet the receiver will be handed; written: the broadcast
\* packets written to the write half, in the order of the writes.
ClientNew(addr, player) ==
    [addr |-> addr, connected |-> TRUE,
     player |-> player.id, username |-> player.username,
     missed |-> <<>>, sub |-> published, rx |-> published + 1,
     readTask |-> "spawned", subTask |-> "none", written |-> <<>>]

\* sess: the session whose read returned; sentType, sentPayload: the packet
\* the peer built; damage: what happened to it on the way; bytes: what read()
\* put in the buffer.
NoBuffer ==
    [sess |-> 0, sentType |-> 0, sentPayload |-> <<>>,
     damage |-> [kind |-> "none", at |-> 0, bit |-> 0], bytes |-> <<>>]

\* op: the read path that handled the buffer; buffer: the buffer handled;
\* parsed: the result of Packet::parse; check: the checksum computed over the
\* parsed payload; checkOk: the result of Checksum::check; writes: the result
\* of each write_all the transport gives, in order; sends: the send_packet
\* calls made, in order, each with the packet's type and bytes, the position
\* in writes it started from, the write_all calls it made and its result;
\* dispatched: the branch of handle_packet taken; before: the player bound
\* to the session when the handling began.
NoReply ==
    [op |-> "-", buffer |-> NoBuffer, parsed |-> Err("-"), check |-> 0,
     checkOk |-> FALSE, writes |-> <<>>, sends |-> <<>>, dispatched |-> "-",
     before |-> "-"]

\* GameInstance::create_instance: one PlayerView per roster entry.
\* PlayerView::from_player: health 30, an empty hand. The hand is kept as the
\* set of the ids of the CardViews in its slots.
PlayerView_from_player(id) == [id |-> id, health |-> 30, current_hand |-> {}]

\* GameState::new_game and add_player for every player of the roster, in
\* order: the first becomes blue_player, the second red_player; the turn is
\* "Red"; the game is ongoing; the card caches are empty. pump is the position
\* of cycle_game_state, full_cards_lock the state of the lock of full_cards.
new_game(roster) ==
    [views |-> [p \in {roster[i] : i \in 1..Len(roster)} |-> PlayerView_from_player(p)],
     blue_player |-> IF Len(roster) >= 1 THEN roster[1] ELSE "",
     red_player |-> IF Len(roster) >= 2 THEN roster[2] ELSE "",
     curr_turn |-> "Red",
     ongoing |-> TRUE,
     full_cards |-> {},
     game_cards |-> {},
     full_cards_lock |-> "free",
     pump |-> "running"]

NewGame == new_game(<<"p1", "p2">>)

NoPlay ==
    [op |-> "-", client |-> "-", actor_id |-> "-", card_id |-> "-", fetch |-> "-",
     result |-> Err("-"), outcome |-> "-", calls |-> <<>>, applied |-> <<>>,
     sent |-> <<>>, before |-> NewGame, after |-> NewGame]

\* No packet has been serialized yet.
NoPacket == [op |-> "-", header_type |-> 0, len |-> 0, bytes |-> <<>>]

\* No LuaContext has been built yet.
NoContext == [op |-> "-"]

\* The tasks whose lock operations are followed: the PlayCard handlers of two
\* sessions, the broadcast pump, and a task that asks for exclusive access to
\* the game state.
Tasks == {"h1", "h2", "pump", "writer"}

Init ==
    /\ players = [p \in PlayerIds |-> 0]
    /\ clients = <<>>
    /\ published = 0
    /\ nextAddr = 1
    /\ hands = [p \in connected_players |-> 0]
    /\ buffer = NoBuffer
    /\ reply = NoReply
    /\ game = NewGame
    /\ play = NoPlay
    /\ emitted = NoPacket
    /\ context = NoContext
    /\ pc = [t \in Tasks |-> 0]
    /\ held = [t \in Tasks |-> <<>>]
    /\ waiters = <<>>
    /\ last = NoEvent

---------------------------------------------------------------------------
(* Protocol::handle_connect *)

handle_connect(payload, unwrapOk, maxSessions, maxAt) ==
    LET player == new_connection(payload) IN
    IF ~player.ok
    THEN /\ last' = Event("connect", "-", player.err, 0)
         /\ UNCHANGED <<players, clients, published, nextAddr, hands, buffer, reply, game, play, emitted, context, pc, held, waiters>>
    ELSE IF ~unwrapOk
    THEN /\ last' = Event("connect", "-", "InternalError", 0)
         /\ UNCHANGED <<players, clients, published, nextAddr, hands, buffer, reply, game, play, emitted, context, pc, held, waiters>>
    ELSE /\ Len(clients) < maxSessions
         /\ published <= maxAt
         /\ clients' = Append(clients, ClientNew(nextAddr, player.val))
         /\ players' = [players EXCEPT ![player.val.id] = Len(clients) + 1]
         /\ nextAddr' = nextAddr + 1
         /\ last' = [Event("connect", payload.player_id, "Ok", Len(clients) + 1)
                        EXCEPT !.auth = player.val.username]
         /\ UNCHANGED <<published, hands, buffer, reply, game, play, emitted, context, pc, held, waiters>>

\* requests: the Connect payloads explored; maxSessions, maxAt: the bounds
\* on the sessions built and on the packets published before a handshake.
HandleConnect(requests, maxSessions, maxAt) ==
    \E payload \in requests \cup {Malformed}, unwrapOk \in BOOLEAN :
        handle_connect(payload, unwrapOk, maxSessions, maxAt)

---------------------------------------------------------------------------
(* Client::connect, as written in client.rs: the task handle_connect spawns *)

\* First step of the task: take the `connected` read guard, spawn the
\* broadcast subscriber (tick_game_state), enter the read loop.
ClientConnect(s) ==
    /\ clients[s].readTask = "spawned"
    /\ clients' = [clients EXCEPT ![s].readTask = "running", ![s].subTask = "running"]
    /\ last' = Event("start", clients[s].player, "Ok", s)
    /\ UNCHANGED <<players, published, nextAddr, hands, buffer, reply, game, play, emitted, context, pc, held, waiters>>

\* The read returns Ok(0) or Err: the loop breaks and the task ends.
\* Nothing else is done: `connected` is not written.
ReadClosed(s) ==
    /\ clients[s].readTask = "running"
    /\ clients' = [clients EXCEPT ![s].readTask = "exited"]
    /\ last' = Event("closed", clients[s].player, "Ok", s)
    /\ UNCHANGED <<players, published, nextAddr, hands, buffer, reply, game, play, emitted, context, pc, held, waiters>>

\* A packet is read and answered with send_or_disconnect. When the write
\* fails three times, Client::disconnect asks for the write lock of
\* `connected` while this same task still holds its read guard (line 88):
\* the task waits for ever and the flag is never written.
ReadPacket(s, writeOk) ==
    /\ clients[s].readTask = "running"
    /\ clients' = [clients EXCEPT ![s].readTask = IF writeOk THEN "running" ELSE "blocked"]
    /\ last' = Event("packet", clients[s].player,
                     IF writeOk THEN "Ok" ELSE "PackageWriteError", s)
    /\ UNCHANGED <<players, published, nextAddr, hands, buffer, reply, game, play, emitted, context, pc, held, waiters>>

---------------------------------------------------------------------------
(* The broadcast pump and the bounded fan-out channel *)

\* Protocol::cycle_game_state, one iteration: wrap the game state in a
\* GameState packet and send it on the transmitter. A packet is identified
\* by its position in the order of publication.
CycleGameState(maxBroadcasts) ==
    /\ game.pump = "running"
    /\ game.ongoing
    /\ published < maxBroadcasts
    /\ published' = published + 1
    /\ last' = [Event("publish", "-", "Ok", 0) EXCEPT !.pkt = published + 1]
    /\ UNCHANGED <<players, clients, nextAddr, hands, buffer, reply, game, play, emitted, context, pc, held, waiters>>

\* tokio broadcast: the channel keeps the last ChannelCapacity packets; a
\* receiver whose next packet has been overwritten gets Err(Lagged).
Lagged(c) == c.rx + ChannelCapacity <= published

\* Client::tick_game_state, one turn of `while let Ok(p) = receiver.recv()`.
tick_game_state(s, writeOk) ==
    LET c == clients[s] IN
    /\ c.subTask = "running"
    /\ IF Lagged(c)
       THEN \* recv() is Err: the loop ends; the receiver now stands at the
            \* oldest packet the channel still holds.
            /\ clients' = [clients EXCEPT ![s].subTask = "exited",
                                          ![s].rx = published - ChannelCapacity + 1]
            /\ last' = Event("tick", c.player, "Lagged", s)
       ELSE /\ c.rx <= published
            /\ IF ~c.connected
               THEN /\ clients' = [clients EXCEPT ![s].subTask = "exited", ![s].rx = c.rx + 1]
                    /\ last' = [Event("tick", c.player, "NotConnected", s)
                                  EXCEPT !.pkt = c.rx]
               ELSE IF writeOk
               THEN /\ clients' = [clients EXCEPT ![s].rx = c.rx + 1,
                                                 ![s].written = Append(c.written, c.rx)]
                    /\ last' = [Event("tick", c.player, "Ok", s)
                                  EXCEPT !.pkt = c.rx, !.sent = <<c.rx>>]
               ELSE \* send_packet gave up after three attempts: break.
                    /\ clients' = [clients EXCEPT ![s].subTask = "exited", ![s].rx = c.rx + 1]
                    /\ last' = [Event("tick", c.player, "PackageWriteError", s)
                                  EXCEPT !.pkt = c.rx]
    /\ UNCHANGED <<players, published, nextAddr, hands, buffer, reply, game, play, emitted, context, pc, held, waiters>>

TickGameState ==
    \E s \in Sessions, writeOk \in BOOLEAN : tick_game_state(s, writeOk)

---------------------------------------------------------------------------
(* Spec: the server with the session of client.rs *)

Next ==
    \/ HandleConnect(ConnectionRequests, MaxSessions, MaxBroadcasts)
    \/ \E s \in Sessions : ClientConnect(s)
    \/ \E s \in Sessions : ReadClosed(s)
    \/ \E s \in Sessions, writeOk \in BOOLEAN : ReadPacket(s, writeOk)
    \/ CycleGameState(MaxBroadcasts)
    \/ TickGameState

\* The runtime runs every spawned task: a task that can take its first step
\* takes it.
Spec ==
    /\ Init
    /\ [][Next]_vars
    /\ \A s \in 1..MaxSessions : WF_vars(s \in Sessions /\ ClientConnect(s))

---------------------------------------------------------------------------
(* SpecB: the same server, one session, a long run of broadcasts *)

NextB ==
    \/ HandleConnect(ConnectionRequests, MaxSessionsB, MaxBroadcastsB)
    \/ \E s \in Sessions : ClientConnect(s)
    \/ \E s \in Sessions : ReadClosed(s)
    \/ \E s \in Sessions, writeOk \in BOOLEAN : ReadPacket(s, writeOk)
    \/ CycleGameState(MaxBroadcastsB)
    \/ TickGameState

SpecB == Init /\ [][NextB]_vars

---------------------------------------------------------------------------
(* SpecQ: the session protocol.rs is written against.  Its dispatcher code  *)
(* (handle_reconnect, send_packet, disconnect, handle_disconnect,           *)
(* send_missed_packets) is in protocol.rs; Client::reconnect and the        *)
(* subscriber that fills and drains missed_packets are taken from the       *)
(* specification document.                                                  *)

Min(a, b) == IF a < b THEN a ELSE b

\* A disconnect that leaves the flag as it is.
disconnect_KeepsFlag(c) == c

\* Protocol::disconnect: the flag is cleared; the registry is not touched.
disconnect(c) == [c EXCEPT !.connected = FALSE]

\* Client::reconnect(newTransport): swaps read_half, write_half and addr for
\* those of the new transport, sets connected; a read loop starts on the new
\* read half.
ClientReconnect_ClearsQueue(c, addr) ==
    [c EXCEPT !.addr = addr, !.connected = TRUE, !.readTask = "running",
              !.missed = <<>>]

ClientReconnect(c, addr) ==
    [c EXCEPT !.addr = addr, !.connected = TRUE, !.readTask = "running"]

\* Protocol::handle_reconnect. A player without a session and a temporary
\* client that cannot be unwrapped are both answered with InternalError.
handle_reconnect(payload, unwrapOk) ==
    LET authenticated_player == reconnection(payload) IN
    IF ~authenticated_player.ok
    THEN /\ last' = Event("reconnect", "-", authenticated_player.err, 0)
         /\ UNCHANGED <<players, clients, published, nextAddr, hands, buffer, reply, game, play, emitted, context, pc, held, waiters>>
    ELSE IF players[authenticated_player.val] = 0
    THEN /\ last' = Event("reconnect", "-", "InternalError", 0)
         /\ UNCHANGED <<players, clients, published, nextAddr, hands, buffer, reply, game, play, emitted, context, pc, held, waiters>>
    ELSE IF ~unwrapOk
    THEN /\ last' = Event("reconnect", "-", "InternalError", 0)
         /\ UNCHANGED <<players, clients, published, nextAddr, hands, buffer, reply, game, play, emitted, context, pc, held, waiters>>
    ELSE LET s == players[authenticated_player.val] IN
         /\ nextAddr - Len(clients) <= MaxReconnects
         /\ clients' = [clients EXCEPT ![s] = ClientReconnect(@, nextAddr)]
         /\ nextAddr' = nextAddr + 1
         /\ last' = [Event("reconnect", payload.player_id, "Ok", s)
                        EXCEPT !.auth = authenticated_player.val]
         /\ UNCHANGED <<players, published, hands, buffer, reply, game, play, emitted, context, pc, held, waiters>>

HandleReconnect ==
    \E payload \in ReconnectionRequests \cup {Malformed}, unwrapOk \in BOOLEAN :
        handle_reconnect(payload, unwrapOk)

\* The read loop hands a Disconnect packet to the dispatcher:
\* handle_packet -> handle_disconnect -> send_and_disconnect, which sends
\* the acknowledgement (whatever comes of it) and then disconnects.
HandleDisconnect(s) ==
    /\ clients[s].readTask = "running"
    /\ clients[s].connected
    /\ clients' = [clients EXCEPT ![s] = disconnect(@)]
    /\ last' = Event("disconnect", clients[s].player, "Ok", s)
    /\ UNCHANGED <<players, published, nextAddr, hands, buffer, reply, game, play, emitted, context, pc, held, waiters>>

\* Protocol::send_missed_packets, for a transport that takes the next `good`
\* writes and fails every later one: the queue is emptied from the front,
\* each packet popped is handed to send_or_disconnect, and a packet whose
\* write fails (three attempts) disconnects the session.
send_missed_packets_Lifo(c, good) ==
    LET n == Len(c.missed)
        back == [i \in 1..n |-> c.missed[n + 1 - i]] IN
    [client |-> [c EXCEPT !.missed = <<>>,
                          !.connected = c.connected /\ good >= n],
     sent |-> SubSeq(back, 1, Min(good, n))]

send_missed_packets(c, good) ==
    LET n == Len(c.missed) IN
    [client |-> [c EXCEPT !.missed = <<>>,
                          !.connected = c.connected /\ good >= n],
     sent |-> SubSeq(c.missed, 1, Min(good, n))]

\* The subscriber's branch for a disconnected session: append, and keep the
\* queue within MissedCapacity by dropping its front.
enqueue_missed_DropNewest(q, packet) ==
    IF Len(q) >= MissedCapacity
    THEN Append(SubSeq(q, 1, MissedCapacity - 1), packet)
    ELSE Append(q, packet)

enqueue_missed(q, packet) ==
    IF Len(q) >= MissedCapacity
    THEN Append(Tail(q), packet)
    ELSE Append(q, packet)

\* The broadcast subscriber of the session, one packet: connected, drain the
\* missed queue and then send the packet; disconnected, queue the packet.
broadcast_subscriber(s, good) ==
    LET c == clients[s]
        packet == c.rx IN
    /\ c.subTask = "running"
    /\ c.rx <= published
    /\ IF c.connected
       THEN LET drained == send_missed_packets(c, good)
                n == Len(c.missed)
                sendOk == good > n IN
            /\ clients' = [clients EXCEPT ![s] =
                              [(IF sendOk THEN drained.client ELSE disconnect(drained.client))
                                  EXCEPT !.rx = c.rx + 1]]
            /\ last' = [Event("tick", c.player, IF sendOk THEN "Ok" ELSE "PackageWriteError", s)
                          EXCEPT !.pkt = packet,
                                 !.sent = IF sendOk THEN Append(drained.sent, packet)
                                                    ELSE drained.sent]
       ELSE /\ clients' = [clients EXCEPT ![s].missed = enqueue_missed(c.missed, packet),
                                         ![s].rx = c.rx + 1]
            /\ last' = [Event("tick", c.player,
                              IF Len(c.missed) >= MissedCapacity THEN "QueuedDropOldest"
                                                                  ELSE "Queued", s)
                          EXCEPT !.pkt = packet]
    /\ UNCHANGED <<players, published, nextAddr, hands, buffer, reply, game, play, emitted, context, pc, held, waiters>>

\* The writes that succeed before the transport fails, out of n.
Outcomes(n) == (0..Min(n, MaxPartial)) \cup {n}

BroadcastSubscriber ==
    \E s \in Sessions :
        \E good \in Outcomes(Len(clients[s].missed) + 1) : broadcast_subscriber(s, good)

\* The pump, held to MaxBacklog packets ahead of every session's receiver.
CycleGameStateQ ==
    /\ \A s \in Sessions : published + 1 - clients[s].rx < MaxBacklog
    /\ CycleGameState(MaxBroadcastsQ)

\* The requests of the roster's players who present their own token.
OwnRequests ==
    {r \in ConnectionRequests :
        r.player_id \in connected_players /\ TokenOwner(r.auth_token) = r.player_id}

NextQ ==
    \/ HandleConnect(OwnRequests, MaxSessionsQ, MaxConnectAt)
    \/ HandleReconnect
    \/ \E s \in Sessions : ClientConnect(s)
    \/ \E s \in Sessions : ReadClosed(s)
    \/ \E s \in Sessions : HandleDisconnect(s)
    \/ CycleGameStateQ
    \/ BroadcastSubscriber

SpecQ == Init /\ [][NextQ]_vars

---------------------------------------------------------------------------
(* The wire format: utils/checksum.rs, tcp/header.rs, tcp/packet.rs.        *)
(* A byte is a number in 0..255; a u16 a number in 0..65535; an i16 a       *)
(* number in -32768..32767.                                                 *)

RECURSIVE Xor(_, _)
\* a ^ b on unsigned integers
Xor(a, b) ==
    IF a = 0 THEN b
    ELSE IF b = 0 THEN a
    ELSE ((a + b) % 2) + 2 * Xor(a \div 2, b \div 2)

\* `x as i16`, for x a u16 or a usize
AsI16(x) == IF x % 65536 >= 32768 THEN (x % 65536) - 65536 ELSE x % 65536

\* `x as u16`, for x an i16
AsU16(x) == IF x < 0 THEN x + 65536 ELSE x

\* u16::from_be_bytes([hi, lo])
from_be_bytes(hi, lo) == hi * 256 + lo

RECURSIVE ChecksumSum(_, _, _)
\* A checksum that adds the bytes instead.
ChecksumSum(payload, i, checksum) ==
    IF i > Len(payload) THEN checksum
    ELSE ChecksumSum(payload, i + 1, (checksum + payload[i]) % 65536)

RECURSIVE ChecksumLoop(_, _, _)
\* The loop of Checksum::new: `for &byte in payload { checksum ^= byte as u16 }`
ChecksumLoop(payload, i, checksum) ==
    IF i > Len(payload) THEN checksum
    ELSE ChecksumLoop(payload, i + 1, Xor(checksum, payload[i]))

Checksum_new_Sum(payload) == ChecksumSum(payload, 1, 0)

\* Checksum::new
Checksum_new(payload) == ChecksumLoop(payload, 1, 0)

\* A check that compares the low byte only.
Checksum_check_LowByte(checksum, payload) ==
    AsU16(checksum) % 256 = Checksum_new(payload) % 256

\* Checksum::check: `*checksum == check as i16`
Checksum_check(checksum, payload) == checksum = AsI16(Checksum_new(payload))

\* HeaderType, as its u8 value
Disconnect == 0
Connect == 1
Ping == 2
Reconnect == 3
GameState == 16
PlayCard == 17
AttackPlayer == 18
InitServer == 19
InvalidHeader == 250
AlreadyConnected == 251
InvalidPlayerData == 252
InvalidChecksum == 253
FailedToConnectPlayer == 240
InvalidPacketPayload == 241
ERROR == 254

HeaderTypes ==
    {Disconnect, Connect, Ping, Reconnect, GameState, PlayCard, AttackPlayer,
     InitServer, InvalidHeader, AlreadyConnected, InvalidPlayerData,
     InvalidChecksum, FailedToConnectPlayer, InvalidPacketPayload, ERROR}

\* HeaderType::try_from(u8)
HeaderType_try_from(value) ==
    IF value \in HeaderTypes THEN Ok(value) ELSE Err("()")

\* Header::new
Header_new(header_type, payload) ==
    [checksum |-> AsI16(Checksum_new(payload)),
     payload_length |-> AsI16(Len(payload)),
     header_type |-> header_type]

\* Header::wrap_header
wrap_header(header) ==
    LET checksum == AsU16(header.checksum)
        payload_length == AsU16(header.payload_length) IN
    << header.header_type,
       (payload_length \div 256) % 256,
       payload_length % 256,
       (checksum \div 256) % 256,
       checksum % 256,
       10 >>

\* A from_bytes that reads the checksum bytes in the other order.
from_bytes_LittleEndian(bytes) ==
    IF Len(bytes) # 6 \/ bytes[6] # 10 THEN Err("InvalidHeaderError")
    ELSE LET header_type == HeaderType_try_from(bytes[1]) IN
         IF ~header_type.ok THEN Err("InvalidHeaderError")
         ELSE Ok([checksum |-> AsI16(from_be_bytes(bytes[5], bytes[4])),
                  payload_length |-> AsI16(from_be_bytes(bytes[2], bytes[3])),
                  header_type |-> header_type.val])

\* Header::from_bytes
from_bytes(bytes) ==
    IF Len(bytes) # 6 \/ bytes[6] # 10 THEN Err("InvalidHeaderError")
    ELSE LET header_type == HeaderType_try_from(bytes[1]) IN
         IF ~header_type.ok THEN Err("InvalidHeaderError")
         ELSE Ok([checksum |-> AsI16(from_be_bytes(bytes[4], bytes[5])),
                  payload_length |-> AsI16(from_be_bytes(bytes[2], bytes[3])),
                  header_type |-> header_type.val])

\* MessageType::try_from(u8) of protocol.rs: the types it maps back.
MessageTypes ==
    {Disconnect, Connect, Ping, Reconnect, GameState, PlayCard, AttackPlayer, ERROR}

MessageType_try_from(value) ==
    IF value \in MessageTypes THEN Ok(value) ELSE Err("()")

\* ProtocolHeader::from_bytes, the copy of the header parser in protocol.rs
ProtocolHeader_from_bytes(bytes) ==
    IF Len(bytes) # 6 \/ bytes[6] # 10 THEN Err("InvalidHeaderError")
    ELSE LET header_type == MessageType_try_from(bytes[1]) IN
         IF ~header_type.ok THEN Err("InvalidHeaderError")
         ELSE Ok([checksum |-> AsI16(from_be_bytes(bytes[4], bytes[5])),
                  payload_length |-> AsI16(from_be_bytes(bytes[2], bytes[3])),
                  header_type |-> header_type.val])

\* Packet::new
Packet_new(header_type, payload) ==
    [header |-> Header_new(header_type, payload), payload |-> payload]

\* Packet::wrap_packet
wrap_packet(packet) == wrap_header(packet.header) \o packet.payload

\* Packet::parse (packet.rs)
Packet_parse(protocol) ==
    IF Len(protocol) < 6 THEN Err("InvalidPacketError")
    ELSE LET header == from_bytes(SubSeq(protocol, 1, 6)) IN
         IF ~header.ok THEN header
         ELSE Ok([header |-> header.val,
                  payload |-> SubSeq(protocol, 7, Len(protocol))])

\* Packet::parse, the copy in protocol.rs
ProtocolPacket_parse(protocol) ==
    IF Len(protocol) < 6 THEN Err("InvalidPacketError")
    ELSE LET header == ProtocolHeader_from_bytes(SubSeq(protocol, 1, 6)) IN
         IF ~header.ok THEN header
         ELSE Ok([header |-> header.val,
                  payload |-> SubSeq(protocol, 7, Len(protocol))])

---------------------------------------------------------------------------
(* SpecW: the read path of a session. A read returns the bytes of one       *)
(* packet of the peer, whole or damaged; the dispatcher (protocol.rs        *)
(* handle_incoming) or the read loop of client.rs handles them.             *)

ByteSamples == {0, 1, 171}

Payloads == UNION {[1..n -> ByteSamples] : n \in 0..MaxPayloadLen}

\* The type bytes a peer may send: every HeaderType, and a byte that is none.
PeerTypes == HeaderTypes \cup {127}

\* The packets explored damaged are those of these types.
DamagedTypes == {Disconnect, Connect, PlayCard}

NoDamage == [kind |-> "none", at |-> 0, bit |-> 0]

\* What may happen to a packet before the read returns it: nothing; its last
\* payload byte is missing; a byte follows it; its sentinel is overwritten;
\* only five bytes arrive; one bit of the payload or of the checksum field
\* is flipped.
Damages(payload) ==
    {NoDamage}
    \cup {[kind |-> k, at |-> 0, bit |-> 0] : k \in {"extra", "sentinel", "header"}}
    \cup {[kind |-> "truncated", at |-> i, bit |-> 0] : i \in {Len(payload)} \ {0}}
    \cup {[kind |-> "payload", at |-> i, bit |-> b] : i \in 1..Len(payload), b \in 0..7}
    \cup {[kind |-> "checksum", at |-> 0, bit |-> b] : b \in 0..15}

Damage(wire, d) ==
    CASE d.kind = "none" -> wire
      [] d.kind = "truncated" -> SubSeq(wire, 1, Len(wire) - 1)
      [] d.kind = "extra" -> Append(wire, 1)
      [] d.kind = "sentinel" -> [wire EXCEPT ![6] = 0]
      [] d.kind = "header" -> SubSeq(wire, 1, 5)
      [] d.kind = "payload" -> [wire EXCEPT ![6 + d.at] = Xor(@, 2 ^ d.bit)]
      [] d.kind = "checksum" ->
            IF d.bit < 8 THEN [wire EXCEPT ![5] = Xor(@, 2 ^ d.bit)]
                         ELSE [wire EXCEPT ![4] = Xor(@, 2 ^ (d.bit - 8))]

\* read_stream.read(&mut buffer) returns n > 0 bytes. The handling of the
\* first buffer of a session is explored.
Receive(s) ==
    /\ buffer = NoBuffer
    /\ reply = NoReply
    /\ clients[s].readTask = "running"
    /\ clients[s].connected
    /\ \E t \in PeerTypes, payload \in Payloads :
         \E d \in IF t \in DamagedTypes THEN Damages(payload) ELSE {NoDamage} :
            buffer' = [sess |-> s, sentType |-> t, sentPayload |-> payload,
                       damage |-> d,
                       bytes |-> Damage(wrap_packet(Packet_new(t, payload)), d)]
    /\ reply' = NoReply
    /\ last' = Event("read", clients[s].player, "Ok", s)
    /\ UNCHANGED <<players, clients, published, nextAddr, hands, game, play, emitted, context, pc, held, waiters>>

WriteResults == [1..MaxWrites -> BOOLEAN]

\* The result of the i-th write_all on the transport.
WriteAt(writes, i) == IF i <= Len(writes) THEN writes[i] ELSE TRUE

RECURSIVE send_packet_FourTries(_, _, _)
\* A send_packet that allows a fourth attempt.
send_packet_FourTries(writes, from, tries) ==
    IF ~(tries < 4) THEN [ok |-> FALSE, attempts |-> tries]
    ELSE IF ~WriteAt(writes, from + tries + 1)
    THEN send_packet_FourTries(writes, from, tries + 1)
    ELSE [ok |-> TRUE, attempts |-> tries + 1]

RECURSIVE send_packet(_, _, _)
\* Protocol::send_packet and Client::send_packet, the loop `while tries < 3`
\* entered with `tries`, on a transport that has already seen `from` writes.
send_packet(writes, from, tries) ==
    IF ~(tries < 3) THEN [ok |-> FALSE, attempts |-> tries]
    ELSE IF ~WriteAt(writes, from + tries + 1)
    THEN send_packet(writes, from, tries + 1)
    ELSE [ok |-> TRUE, attempts |-> tries + 1]

\* One call of send_packet, as the reply records it.
Send(packet, writes, from) ==
    LET r == send_packet(writes, from, 0) IN
    [type |-> packet.header.header_type, bytes |-> wrap_packet(packet),
     from |-> from, attempts |-> r.attempts, ok |-> r.ok]

\* The write_all calls made by the sends of a sequence.
Attempts(sends) ==
    IF sends = <<>> THEN 0
    ELSE sends[Len(sends)].from + sends[Len(sends)].attempts

\* Protocol::handle_packet
handle_packet(c, packet, writes) ==
    CASE packet.header.header_type = Disconnect ->
            \* handle_disconnect: send_and_disconnect
            [client |-> disconnect(c),
             sends |-> <<Send(Packet_new(Disconnect, <<>>), writes, 0)>>,
             dispatched |-> "handle_disconnect"]
      [] packet.header.header_type = PlayCard ->
            [client |-> c, sends |-> <<>>, dispatched |-> "handle_play_card"]
      [] OTHER ->
            LET snd == Send(Packet_new(InvalidHeader, <<>>), writes, 0) IN
            [client |-> IF snd.ok THEN c ELSE disconnect(c),
             sends |-> <<snd>>, dispatched |-> "InvalidHeader"]

\* Protocol::handle_incoming
handle_incoming(c, bytes, writes) ==
    LET parsed == ProtocolPacket_parse(bytes) IN
    IF ~parsed.ok
    THEN [client |-> c, parsed |-> parsed, check |-> 0, checkOk |-> FALSE,
          sends |-> <<>>, dispatched |-> "-"]
    ELSE LET packet == parsed.val
             check == Checksum_new(packet.payload)
             checkOk == Checksum_check(packet.header.checksum, packet.payload) IN
         IF ~checkOk
         THEN LET snd == Send(Packet_new(InvalidChecksum, <<>>), writes, 0) IN
              [client |-> IF snd.ok THEN c ELSE disconnect(c),
               parsed |-> parsed, check |-> check, checkOk |-> checkOk,
               sends |-> <<snd>>, dispatched |-> "-"]
         ELSE LET h == handle_packet(c, packet, writes) IN
              [client |-> h.client, parsed |-> parsed, check |-> check,
               checkOk |-> checkOk, sends |-> h.sends, dispatched |-> h.dispatched]

HandleIncoming(s) ==
    /\ buffer # NoBuffer
    /\ buffer.sess = s
    /\ \E writes \in WriteResults :
         LET r == handle_incoming(clients[s], buffer.bytes, writes) IN
         /\ clients' = [clients EXCEPT ![s] = r.client]
         /\ reply' = [op |-> "handle_incoming", buffer |-> buffer,
                      parsed |-> r.parsed, check |-> r.check, checkOk |-> r.checkOk,
                      writes |-> writes, sends |-> r.sends,
                      dispatched |-> r.dispatched, before |-> clients[s].player]
         /\ last' = Event("incoming", clients[s].player,
                          IF r.sends # <<>> /\ ~r.sends[Len(r.sends)].ok
                            THEN "PackageWriteError" ELSE "Ok", s)
    /\ buffer' = NoBuffer
    /\ UNCHANGED <<players, published, nextAddr, hands, game, play, emitted, context, pc, held, waiters>>

\* b"this stream already has a client attached to it"
AlreadyConnectedText ==
    <<116, 104, 105, 115, 32, 115, 116, 114, 101, 97, 109, 32, 97, 108,
      114, 101, 97, 100, 121, 32, 104, 97, 115, 32, 97, 32, 99, 108,
      105, 101, 110, 116, 32, 97, 116, 116, 97, 99, 104, 101, 100, 32,
      116, 111, 32, 105, 116>>

\* b"yipee, player connected"
PlayerConnectedText ==
    <<121, 105, 112, 101, 101, 44, 32, 112, 108, 97, 121, 101, 114, 32,
      99, 111, 110, 110, 101, 99, 116, 101, 100>>

\* Packet::new(MessageType::ALREADYCONNECTED, payload), client.rs:189
AlreadyConnectedReply == Packet_new(AlreadyConnected, AlreadyConnectedText)

\* Packet::new(MessageType::CONNECT, payload), client.rs:200
PlayerConnectedReply == Packet_new(Connect, PlayerConnectedText)

\* What Player::new(&packet.payload) may return in the read loop of
\* client.rs: a player decoded from the payload, or an error.
PlayerNewResults ==
    {Err("InvalidPlayerData")} \cup {Ok(p) : p \in connected_players}

\* Client::send_or_disconnect, after the sends made so far: when send_packet
\* fails, Client::disconnect asks for the write lock of `connected`, which
\* the read loop itself holds for reading: the task waits for ever.
client_send_or_disconnect(st, packet, writes) ==
    IF st.blocked THEN st
    ELSE LET snd == Send(packet, writes, Attempts(st.sends)) IN
         [st EXCEPT !.sends = Append(st.sends, snd), !.blocked = ~snd.ok]

\* Client::handle_packet (client.rs)
client_handle_packet(st, packet, writes, newPlayer) ==
    CASE packet.header.header_type = Connect ->
            LET st1 == IF st.client.player # "-"
                         THEN client_send_or_disconnect(st, AlreadyConnectedReply, writes)
                         ELSE st IN
            IF st1.blocked THEN [st1 EXCEPT !.dispatched = "CONNECT"]
            ELSE IF newPlayer.ok
            THEN [client_send_or_disconnect(
                     [st1 EXCEPT !.client.player = newPlayer.val,
                                 !.client.username = newPlayer.val],
                     PlayerConnectedReply, writes)
                    EXCEPT !.dispatched = "CONNECT"]
            ELSE [client_send_or_disconnect(
                     st1, Packet_new(InvalidPlayerData, <<>>), writes)
                    EXCEPT !.dispatched = "CONNECT"]
      [] packet.header.header_type = Disconnect ->
            [client_send_or_disconnect(st, Packet_new(Disconnect, <<>>), writes)
                EXCEPT !.dispatched = "DISCONNECT"]
      [] OTHER ->
            [client_send_or_disconnect(st, Packet_new(InvalidHeader, <<>>), writes)
                EXCEPT !.dispatched = "INVALIDHEADER"]

\* The body of the read loop of Client::connect (client.rs), for one buffer.
client_read(c, bytes, writes, newPlayer) ==
    LET parsed == ProtocolPacket_parse(bytes)
        st0 == [client |-> c, sends |-> <<>>, blocked |-> FALSE, dispatched |-> "-"] IN
    IF ~parsed.ok
    THEN [st |-> st0, parsed |-> parsed, check |-> 0, checkOk |-> FALSE]
    ELSE LET packet == parsed.val
             check == Checksum_new(packet.payload)
             checkOk == Checksum_check(packet.header.checksum, packet.payload)
             st1 == IF ~checkOk
                      THEN client_send_or_disconnect(
                               st0, Packet_new(InvalidChecksum, <<>>), writes)
                      ELSE st0 IN
         [st |-> IF st1.blocked THEN st1
                 ELSE client_handle_packet(st1, packet, writes, newPlayer),
          parsed |-> parsed, check |-> check, checkOk |-> checkOk]

ClientRead(s) ==
    /\ buffer # NoBuffer
    /\ buffer.sess = s
    /\ \E writes \in WriteResults, newPlayer \in PlayerNewResults :
         LET r == client_read(clients[s], buffer.bytes, writes, newPlayer) IN
         /\ clients' = [clients EXCEPT ![s] =
                           [r.st.client EXCEPT !.readTask =
                               IF r.st.blocked THEN "blocked" ELSE "running"]]
         /\ reply' = [op |-> "client_read", buffer |-> buffer,
                      parsed |-> r.parsed, check |-> r.check, checkOk |-> r.checkOk,
                      writes |-> writes, sends |-> r.st.sends,
                      dispatched |-> r.st.dispatched, before |-> clients[s].player]
         /\ last' = Event("incoming", clients[s].player,
                          IF r.st.blocked THEN "PackageWriteError" ELSE "Ok", s)
    /\ buffer' = NoBuffer
    /\ UNCHANGED <<players, published, nextAddr, hands, game, play, emitted, context, pc, held, waiters>>

\* Packet::parse and Checksum::check of packet.rs and checksum.rs, applied to
\* the buffer.
PacketParse(s) ==
    /\ buffer # NoBuffer
    /\ buffer.sess = s
    /\ LET parsed == Packet_parse(buffer.bytes) IN
       reply' = [op |-> "parse", buffer |-> buffer, parsed |-> parsed,
                 check |-> IF parsed.ok THEN Checksum_new(parsed.val.payload) ELSE 0,
                 checkOk |-> /\ parsed.ok
                             /\ Checksum_check(parsed.val.header.checksum,
                                               parsed.val.payload),
                 writes |-> <<>>, sends |-> <<>>, dispatched |-> "-",
                 before |-> clients[s].player]
    /\ last' = Event("parse", clients[s].player, "Ok", s)
    /\ buffer' = NoBuffer
    /\ UNCHANGED <<players, clients, published, nextAddr, hands, game, play, emitted, context, pc, held, waiters>>

\* The handshake that opens the session of SpecW.
FirstRequest ==
    {[player_id |-> "p1", auth_token |-> "tok1", current_deck_id |-> "d1"]}

NextW ==
    \/ \E payload \in FirstRequest : handle_connect(payload, TRUE, MaxSessionsW, 0)
    \/ \E s \in Sessions : ClientConnect(s)
    \/ \E s \in Sessions : Receive(s)
    \/ \E s \in Sessions : HandleIncoming(s)
    \/ \E s \in Sessions : ClientRead(s)
    \/ \E s \in Sessions : PacketParse(s)

SpecW == Init /\ [][NextW]_vars

----------------------------------------------------------------------------
(* The game: game/game.rs, game/game_state.rs, game/lua_context.rs,         *)
(* game/script_manager.rs, the PlayCard arm of the dispatcher and the two  *)
(* state pumps. Explored under SpecG.                                      *)

\* Card ids: "c9" is a card the card service does not know.
CardIds == {"c1", "c2", "c3", "c4", "c5", "c9"}

\* Card.on_play of the full record of a card, as the card service holds it.
on_play(card_id) ==
    CASE card_id = "c1" -> <<"effects:hit">>
      [] card_id = "c2" -> <<"effects:hit", "core:log", "effects:smite">>
      [] card_id = "c3" -> <<"effects:hit", "cards:missing", "core:log">>
      [] card_id = "c4" -> <<"core:log", "cards:broken", "effects:hit">>
      [] card_id = "c5" -> <<"effects:smite", "cards:garbage", "effects:hit">>
      [] OTHER -> <<>>

\* GameAction::DealDamage { target, amount }
DealDamage(target, amount) == [type |-> "DealDamage", target |-> target, amount |-> amount]

\* ScriptManager::call_function_ctx: the function is looked up with
\* get_function, called, and its result read as a Vec<GameAction>.
call_function_ctx(action) ==
    CASE action = "core:log" -> Ok(<<>>)
      [] action = "effects:hit" -> Ok(<<DealDamage("p2", 2)>>)
      [] action = "effects:smite" -> Ok(<<DealDamage("p2", 40)>>)
      [] action = "cards:broken" -> Err("FunctionNotCallable")
      [] action = "cards:garbage" -> Err("InvalidGameActions")
      [] OTHER -> Err("FunctionNotFound")

\* GameState::apply_actions: the body is empty.
apply_actions(g, actions) == g

\* Player.current_deck.cards of the player bound to a session
current_deck(player) == IF player = "p2" THEN CardIds \ {"c2"} ELSE CardIds

\* What Card::request_card may do for a card id: return the card, return an
\* error (NOT_FOUND, another status, a transport error).
FetchResults(card_id) ==
    IF card_id = "c9" THEN {"CardNotFound"}
    ELSE {"Ok", "UnexpectedCardRequestError"}

\* What a handler has done when it stops.
Stopped(g, result, outcome, calls, applied) ==
    [game |-> g, result |-> result, outcome |-> outcome, calls |-> calls,
     applied |-> applied]

RECURSIVE trigger_loop_KeepsGoing(_, _, _, _, _)
\* A trigger loop that goes on to the next script after a failed call.
trigger_loop_KeepsGoing(g, triggers, i, calls, applied) ==
    IF i > Len(triggers) THEN Stopped(g, Ok("()"), "returned", calls, applied)
    ELSE IF Cardinality(DOMAIN g.views) < 2
    THEN Stopped(g, Err("-"), "panicked", calls, applied)
    ELSE LET game_actions == call_function_ctx(triggers[i]) IN
         IF ~game_actions.ok
         THEN trigger_loop_KeepsGoing(g, triggers, i + 1,
                                      Append(calls, triggers[i]), applied)
         ELSE trigger_loop_KeepsGoing(apply_actions(g, game_actions.val), triggers,
                                      i + 1, Append(calls, triggers[i]),
                                      Append(applied, game_actions.val))

RECURSIVE trigger_loop(_, _, _, _, _)
\* GameInstance::play_card, `for action in &full_card.on_play`, from the i-th
\* trigger on. LuaContext::new indexes the first two keys of player_views and
\* panics when there are fewer; `?` returns the error of a failed call;
\* apply_actions is awaited before the next trigger.
trigger_loop(g, triggers, i, calls, applied) ==
    IF i > Len(triggers) THEN Stopped(g, Ok("()"), "returned", calls, applied)
    ELSE IF Cardinality(DOMAIN g.views) < 2
    THEN Stopped(g, Err("-"), "panicked", calls, applied)
    ELSE LET game_actions == call_function_ctx(triggers[i]) IN
         IF ~game_actions.ok
         THEN Stopped(g, game_actions, "returned", Append(calls, triggers[i]), applied)
         ELSE trigger_loop(apply_actions(g, game_actions.val), triggers, i + 1,
                           Append(calls, triggers[i]),
                           Append(applied, game_actions.val))

\* The checks of a play_card that looks at the hand before the identity.
play_card_checks_HandFirst(g, client, actor_id, card_id) ==
    IF actor_id \notin DOMAIN g.views THEN Err("PlayerNotFound")
    ELSE LET player_view == g.views[actor_id] IN
         IF card_id \notin player_view.current_hand THEN Err("CardPlayedIsNotInHand")
         ELSE IF client # player_view.id THEN Err("PlayerIdDoesNotMatch")
         ELSE IF player_view.id # actor_id THEN Err("NotPlayerTurn")
         ELSE Ok(card_id)

\* GameInstance::play_card, lines 89-115: the view of request.actor_id, the
\* identity of the caller, the comparison that stands for the turn check, the
\* card in the hand.
play_card_checks(g, client, actor_id, card_id) ==
    IF actor_id \notin DOMAIN g.views THEN Err("PlayerNotFound")
    ELSE LET player_view == g.views[actor_id] IN
         IF client # player_view.id THEN Err("PlayerIdDoesNotMatch")
         ELSE IF player_view.id # actor_id THEN Err("NotPlayerTurn")
         ELSE IF card_id \notin player_view.current_hand
         THEN Err("CardPlayedIsNotInHand")
         ELSE Ok(card_id)

\* GameInstance::play_card. On a miss of full_cards the card is requested
\* while the read guard of full_cards is held; add_card then waits for the
\* write lock of the same RwLock, which the waiting task itself keeps from
\* being granted. A task that comes to full_cards.read() behind that waiting
\* writer waits too.
play_card(g, client, actor_id, card_id, fetch) ==
    LET card_view == play_card_checks(g, client, actor_id, card_id) IN
    IF ~card_view.ok THEN Stopped(g, card_view, "returned", <<>>, <<>>)
    ELSE IF g.full_cards_lock = "stuck"
    THEN Stopped(g, Err("-"), "blocked", <<>>, <<>>)
    ELSE IF card_id \in g.full_cards
    THEN trigger_loop(g, on_play(card_id), 1, <<>>, <<>>)
    ELSE IF fetch # "Ok"
    THEN Stopped(g, Err("UnableToGetCardDetails"), "returned", <<>>, <<>>)
    ELSE Stopped([g EXCEPT !.full_cards_lock = "stuck"], Err("-"), "blocked",
                 <<>>, <<>>)

RECURSIVE call_all(_, _, _, _)
\* Protocol::handle_play_card, `for action in &full_card.on_play`: the result
\* of every call is dropped.
call_all(g, triggers, i, calls) ==
    IF i > Len(triggers) THEN Stopped(g, Ok("()"), "returned", calls, <<>>)
    ELSE IF Cardinality(DOMAIN g.views) < 2
    THEN Stopped(g, Err("-"), "panicked", calls, <<>>)
    ELSE call_all(g, triggers, i + 1, Append(calls, triggers[i]))

\* Protocol::handle_play_card: the hand looked at is the one of the view
\* stored under curr_turn; a card missing from game_cards is a todo!().
handle_play_card(g, client, card_id) ==
    IF g.curr_turn \notin DOMAIN g.views THEN Stopped(g, Ok("()"), "returned", <<>>, <<>>)
    ELSE IF card_id \notin g.views[g.curr_turn].current_hand
    THEN Stopped(g, Ok("()"), "returned", <<>>, <<>>)
    ELSE IF card_id \notin current_deck(client)
    THEN Stopped(g, Err("CardPlayedIsNotInHand"), "returned", <<>>, <<>>)
    ELSE IF card_id \in g.game_cards
    THEN call_all(g, on_play(card_id), 1, <<>>)
    ELSE Stopped(g, Err("-"), "panicked", <<>>, <<>>)

\* The player ids of the requests and of the sessions.
GamePlayerIds == {"p1", "p2", "p3", "Red"}

\* A PlayCard request handed to GameInstance::play_card. The handling of the
\* first request of a game is explored.
PlayCard_play_card ==
    /\ play = NoPlay
    /\ \E client \in GamePlayerIds, actor_id \in GamePlayerIds, card_id \in CardIds :
        \E fetch \in FetchResults(card_id) :
            LET r == play_card(game, client, actor_id, card_id, fetch) IN
               /\ game' = r.game
               /\ play' = [op |-> "play_card", client |-> client,
                           actor_id |-> actor_id, card_id |-> card_id,
                           fetch |-> fetch, result |-> r.result,
                           outcome |-> r.outcome, calls |-> r.calls,
                           applied |-> r.applied, sent |-> <<>>, before |-> game,
                           after |-> r.game]
               /\ UNCHANGED <<players, clients, published, nextAddr, hands, buffer,
                              reply, last, emitted, context, pc, held, waiters>>

\* Protocol::handle_packet, the PlayCard arm: handle_play_card, then
\* unwrap_or_default() on its result. Nothing is sent on any path.
PlayCard_handle_packet ==
    /\ play = NoPlay
    /\ \E client \in GamePlayerIds, card_id \in CardIds :
         LET r == handle_play_card(game, client, card_id) IN
            /\ game' = r.game
            /\ play' = [op |-> "handle_play_card", client |-> client,
                        actor_id |-> client, card_id |-> card_id, fetch |-> "-",
                        result |-> r.result, outcome |-> r.outcome,
                        calls |-> r.calls, applied |-> r.applied, sent |-> <<>>,
                        before |-> game, after |-> r.game]
            /\ UNCHANGED <<players, clients, published, nextAddr, hands, buffer,
                           reply, last, emitted, context, pc, held, waiters>>

\* The flag `ongoing` of the game state is cleared.
EndGame ==
    /\ game.ongoing
    /\ game' = [game EXCEPT !.ongoing = FALSE]
    /\ last' = Event("end_game", "-", "Ok", 0)
    /\ UNCHANGED <<players, clients, published, nextAddr, hands, buffer, reply, play, emitted, context, pc, held, waiters>>

\* Protocol::cycle_game_state: `while *ongoing` is false and the task returns.
CycleGameStateExit ==
    /\ game.pump = "running"
    /\ ~game.ongoing
    /\ game' = [game EXCEPT !.pump = "exited"]
    /\ last' = Event("pump_exit", "-", "Ok", 0)
    /\ UNCHANGED <<players, clients, published, nextAddr, hands, buffer, reply, play, emitted, context, pc, held, waiters>>

\* ServerInstance::write_state_update, one turn of its `loop`: after the tick
\* a GameState packet is sent when a player is registered.
write_state_update(maxBroadcasts) ==
    /\ published < maxBroadcasts
    /\ DOMAIN game.views # {}
    /\ published' = published + 1
    /\ last' = [Event("state_update", "-", "Ok", 0) EXCEPT !.pkt = published + 1]
    /\ UNCHANGED <<players, clients, nextAddr, hands, buffer, reply, game, play, emitted, context, pc, held, waiters>>

\* The rosters a game is created for.
Rosters == {<<"p1", "p2">>, <<"p1">>, <<"Red", "p2">>}

\* The hands and the caches a game is explored from.
HandsG == {{}, CardIds}

CachesG == {{}, {"c1", "c2", "c3", "c4", "c5"}}

GamesG ==
    {[new_game(roster) EXCEPT
         !.views = [p \in DOMAIN @ |-> [@[p] EXCEPT !.current_hand = hand[p]]],
         !.full_cards = full_cards,
         !.game_cards = game_cards] :
        roster \in Rosters, hand \in [{"p1", "p2", "Red"} -> HandsG],
        full_cards \in CachesG, game_cards \in CachesG}

InitG ==
    /\ players = [p \in PlayerIds |-> 0]
    /\ clients = <<>>
    /\ published = 0
    /\ nextAddr = 1
    /\ hands = [p \in connected_players |-> 0]
    /\ buffer = NoBuffer
    /\ reply = NoReply
    /\ game \in GamesG
    /\ play = NoPlay
    /\ emitted = NoPacket
    /\ context = NoContext
    /\ pc = [t \in Tasks |-> 0]
    /\ held = [t \in Tasks |-> <<>>]
    /\ waiters = <<>>
    /\ last = NoEvent

NextG ==
    \/ PlayCard_play_card
    \/ PlayCard_handle_packet
    \/ EndGame
    \/ CycleGameState(MaxBroadcastsG)
    \/ CycleGameStateExit
    \/ write_state_update(MaxBroadcastsG)

SpecG == InitG /\ [][NextG]_vars

---------------------------------------------------------------------------
(* SpecP: Packet::new and Packet::wrap_packet on payloads of every size.    *)
(* A payload is held by its length; its bytes are zero, and so is its       *)
(* checksum.                                                                *)

\* The payload sizes explored: the short ones, and the ones around 2^15 and
\* 2^16, where `as i16` and `as u16` change the value.
PayloadLens == (0..MaxShortLen) \cup {32767, 32768, 65535, 65536, 65537}

\* Header::new for a payload of `len` zero bytes
Header_new_len(header_type, len) ==
    [checksum |-> AsI16(0),
     payload_length |-> AsI16(len),
     header_type |-> header_type]

\* Packet::new, then Packet::wrap_packet: the six bytes of the header,
\* followed by the `len` bytes of the payload.
PacketWrap ==
    /\ \E header_type \in HeaderTypes, len \in PayloadLens :
          emitted' = [op |-> "wrap", header_type |-> header_type, len |-> len,
                      bytes |-> wrap_header(Header_new_len(header_type, len))]
    /\ last' = Event("wrap", "-", "Ok", 0)
    /\ UNCHANGED <<players, clients, published, nextAddr, hands, buffer, reply, game, play, context, pc, held, waiters>>

NextP == PacketWrap

SpecP == Init /\ [][NextP]_vars

---------------------------------------------------------------------------
(* SpecA: GameState::add_player, called any number of times on a new game,  *)
(* and LuaContext::new on the games this gives.                             *)

\* GameState::add_player: the first free colour, blue before red, takes the
\* player's id; the view built from the player is then inserted under that
\* id, whether a colour was free or not (insert replaces a view already
\* stored under the id).
add_player(g, id) ==
    LET coloured == IF g.blue_player = "" THEN [g EXCEPT !.blue_player = id]
                    ELSE IF g.red_player = "" THEN [g EXCEPT !.red_player = id]
                    ELSE g IN
    [coloured EXCEPT !.views =
        [p \in DOMAIN g.views \cup {id} |->
            IF p = id THEN PlayerView_from_player(id) ELSE g.views[p]]]

AddPlayer ==
    /\ \E id \in GamePlayerIds :
          /\ game' = add_player(game, id)
          /\ last' = Event("add_player", id,
                           IF game.blue_player # "" /\ game.red_player # ""
                             THEN "BothConnected" ELSE "Ok", 0)
    /\ UNCHANGED <<players, clients, published, nextAddr, hands, buffer, reply, play, emitted, context, pc, held, waiters>>

InitA ==
    /\ players = [p \in PlayerIds |-> 0]
    /\ clients = <<>>
    /\ published = 0
    /\ nextAddr = 1
    /\ hands = [p \in connected_players |-> 0]
    /\ buffer = NoBuffer
    /\ reply = NoReply
    /\ game = new_game(<<>>)
    /\ play = NoPlay
    /\ emitted = NoPacket
    /\ context = NoContext
    /\ pc = [t \in Tasks |-> 0]
    /\ held = [t \in Tasks |-> <<>>]
    /\ waiters = <<>>
    /\ last = NoEvent

\* The orders in which the keys of a HashMap can be iterated.
KeyOrders(map) ==
    {keys \in [1..Cardinality(DOMAIN map) -> DOMAIN map] :
        \A i, j \in DOMAIN keys : i # j => keys[i] # keys[j]}

\* LuaContext::new, with `keys` the Vec collected from player_views.keys():
\* red_player is the view under keys[0], blue_player the view under keys[1];
\* indexing a Vec past its end panics.
LuaContext_new(g, keys) ==
    IF Len(keys) < 2 THEN [op |-> "panicked", game |-> g]
    ELSE [op |-> "new", game |-> g,
          game_state |-> [red_player |-> g.views[keys[1]],
                          blue_player |-> g.views[keys[2]]]]

LuaContextNew ==
    /\ \E keys \in KeyOrders(game.views) : context' = LuaContext_new(game, keys)
    /\ last' = Event("lua_context", "-", "Ok", 0)
    /\ UNCHANGED <<players, clients, published, nextAddr, hands, buffer, reply, game, play, emitted, pc, held, waiters>>

NextA ==
    \/ AddPlayer
    \/ LuaContextNew

SpecA == InitA /\ [][NextA]_vars

---------------------------------------------------------------------------
(* SpecL: the locks of a match. GameInstance::play_card for two sessions,   *)
(* Protocol::cycle_game_state and a task that asks for the write lock of    *)
(* the game state run concurrently (#[tokio::main] is the multi-threaded    *)
(* runtime); each task is the sequence of its lock operations and of the    *)
(* steps between them. tokio's RwLock and Mutex hand a lock out in the      *)
(* order of the requests: a request that cannot be granted at once waits,   *)
(* and later requests for the lock wait behind it.                          *)

\* An instruction of a task. to: where a branch goes on; in_call: the
\* instruction is executed inside ScriptManager::call_function_ctx.
Acq(lock, mode) == [op |-> "acquire", lock |-> lock, mode |-> mode, to |-> 0, in_call |-> FALSE]
Rel(lock) == [op |-> "release", lock |-> lock, mode |-> "-", to |-> 0, in_call |-> FALSE]
Do(what) == [op |-> what, lock |-> "-", mode |-> "-", to |-> 0, in_call |-> FALSE]
InCall(ins) == [ins EXCEPT !.in_call = TRUE]

\* The lock of the PlayerView of a player, and of the Player of a session.
ViewLock(id) == IF id = "p1" THEN "player_view_p1" ELSE "player_view_p2"
PlayerLock(id) == IF id = "p1" THEN "player_p1" ELSE "player_p2"

\* ScriptManager::get_function: the map of the action's category, each
\* behind its own Mutex.
Category(action) ==
    CASE action \in {"core:log"} -> "core"
      [] action \in {"effects:hit", "effects:smite"} -> "effects"
      [] OTHER -> "cards"

\* GameInstance::play_card up to the trigger loop: the read guards taken at
\* lines 82, 83, 87, 97 and 119, all kept until the function returns.
play_card_prologue(actor) ==
    << Acq("game_state", "read"), Acq("player_views", "read"),
       Acq(PlayerLock(actor), "read"), Acq(ViewLock(actor), "read"),
       Acq("full_cards", "read") >>

\* One turn of the trigger loop. LuaContext::new takes the read guards of
\* the game state and of player_views, reads the two views (each guard a
\* temporary) and drops its guards on return; the read guard of the script
\* manager is taken next and kept to the end of the turn; call_function_ctx
\* builds the table, looks the function up under the category's Mutex,
\* calls it and converts the result; apply_actions follows.
play_card_trigger(action) ==
    << Acq("game_state", "read"), Acq("player_views", "read"),
       Acq(ViewLock("p1"), "read"), Rel(ViewLock("p1")),
       Acq(ViewLock("p2"), "read"), Rel(ViewLock("p2")),
       Rel("player_views"), Rel("game_state"),
       Acq("script_manager", "read"),
       InCall(Do("to_table")),
       InCall(Acq(Category(action), "lock")), InCall(Rel(Category(action))),
       InCall(Do("call")),
       Do("apply_actions"),
       Rel("script_manager") >>

\* The guards of play_card are dropped when it returns, last taken first.
play_card_epilogue(actor) ==
    << Rel("full_cards"), Rel(ViewLock(actor)), Rel(PlayerLock(actor)),
       Rel("player_views"), Rel("game_state") >>

RECURSIVE play_card_triggers(_, _)
play_card_triggers(triggers, i) ==
    IF i > Len(triggers) THEN <<>>
    ELSE play_card_trigger(triggers[i]) \o play_card_triggers(triggers, i + 1)

\* GameInstance::play_card of `actor` for a card that is in the hand and in
\* the cache.
play_card_program(actor, card_id) ==
    play_card_prologue(actor) \o play_card_triggers(on_play(card_id), 1)
        \o play_card_epilogue(actor)

\* Protocol::cycle_game_state: the read guard of the game state is taken
\* before the loop and kept until the loop ends; each turn tests `ongoing`,
\* locks the transmitter, sends, and waits for the tick with both guards
\* alive (the transmitter guard is dropped at the end of the turn).
cycle_game_state_program ==
    << Acq("game_state", "read"),
       [Do("test") EXCEPT !.to = 8],
       Acq("transmitter", "lock"),
       Do("send"),
       Do("tick"),
       Rel("transmitter"),
       [Do("again") EXCEPT !.to = 2],
       Rel("game_state") >>

\* A task that needs exclusive access to the game state.
writer_program == << Acq("game_state", "write"), Rel("game_state") >>

\* The session of p1 plays c1, the session of p2 plays c2.
h1_program == play_card_program("p1", "c1")

h2_program == play_card_program("p2", "c2")

Program(t) ==
    CASE t = "h1" -> h1_program
      [] t = "h2" -> h2_program
      [] t = "pump" -> cycle_game_state_program
      [] t = "writer" -> writer_program

Running(t) == pc[t] >= 1 /\ pc[t] <= Len(Program(t))

Instr(t) == Program(t)[pc[t]]

\* tokio::sync::RwLock and Mutex: a read guard is compatible with read
\* guards; a write guard and a Mutex guard with nothing, not even with a
\* guard of the task that asks.
Compatible(lock, mode) ==
    \A u \in Tasks : \A i \in DOMAIN held[u] :
        held[u][i].lock = lock => (mode = "read" /\ held[u][i].mode = "read")

WaitingFor(lock) == {i \in DOMAIN waiters : waiters[i].lock = lock}

IsWaiting(t) == \E i \in DOMAIN waiters : waiters[i].task = t

\* t is the task that has waited longest for the lock.
FirstWaiter(t, lock) ==
    \E i \in WaitingFor(lock) :
        /\ waiters[i].task = t
        /\ \A j \in WaitingFor(lock) : i <= j

Without(seq, i) == [j \in 1..(Len(seq) - 1) |-> IF j < i THEN seq[j] ELSE seq[j + 1]]

\* The request is granted: at once when nothing stands against it and no
\* task waits for the lock, or when its turn has come.
LockAcquire(t) ==
    /\ Running(t)
    /\ Instr(t).op = "acquire"
    /\ Compatible(Instr(t).lock, Instr(t).mode)
    /\ IF IsWaiting(t) THEN FirstWaiter(t, Instr(t).lock)
                       ELSE WaitingFor(Instr(t).lock) = {}
    /\ held' = [held EXCEPT ![t] = Append(@, [lock |-> Instr(t).lock,
                                              mode |-> Instr(t).mode])]
    /\ waiters' = IF IsWaiting(t)
                    THEN Without(waiters, CHOOSE i \in DOMAIN waiters : waiters[i].task = t)
                    ELSE waiters
    /\ pc' = [pc EXCEPT ![t] = @ + 1]
    /\ UNCHANGED <<players, clients, published, nextAddr, hands, buffer, reply, game, play, emitted, context, last>>

\* The request cannot be granted at once: the task joins the waiters.
LockWait(t) ==
    /\ Running(t)
    /\ Instr(t).op = "acquire"
    /\ ~IsWaiting(t)
    /\ ~(Compatible(Instr(t).lock, Instr(t).mode) /\ WaitingFor(Instr(t).lock) = {})
    /\ waiters' = Append(waiters, [task |-> t, lock |-> Instr(t).lock])
    /\ UNCHANGED <<players, clients, published, nextAddr, hands, buffer, reply, game, play, emitted, context, pc, held, last>>

\* A guard is dropped: the one the task took last on that lock.
LockRelease(t) ==
    /\ Running(t)
    /\ Instr(t).op = "release"
    /\ LET i == CHOOSE i \in DOMAIN held[t] :
                  /\ held[t][i].lock = Instr(t).lock
                  /\ \A j \in DOMAIN held[t] : held[t][j].lock = Instr(t).lock => j <= i IN
       held' = [held EXCEPT ![t] = Without(@, i)]
    /\ pc' = [pc EXCEPT ![t] = @ + 1]
    /\ UNCHANGED <<players, clients, published, nextAddr, hands, buffer, reply, game, play, emitted, context, waiters, last>>

\* A step of play_card that takes no lock: to_table, the call of the Lua
\* function with the conversion of its result, apply_actions.
Run(t) ==
    /\ Running(t)
    /\ Instr(t).op \in {"to_table", "call", "apply_actions"}
    /\ pc' = [pc EXCEPT ![t] = @ + 1]
    /\ UNCHANGED <<players, clients, published, nextAddr, hands, buffer, reply, game, play, emitted, context, held, waiters, last>>

\* cycle_game_state, `while *game_state_guard.ongoing.read().await`
PumpTest ==
    /\ Running("pump")
    /\ Instr("pump").op = "test"
    /\ pc' = [pc EXCEPT !["pump"] = IF game.ongoing THEN @ + 1 ELSE Instr("pump").to]
    /\ UNCHANGED <<players, clients, published, nextAddr, hands, buffer, reply, game, play, emitted, context, held, waiters, last>>

\* cycle_game_state, `transmitter_guard.send(game_state_packet)`. The pump
\* goes on for as long as the match; the packets are counted up to
\* MaxBroadcastsL.
PumpSend ==
    /\ Running("pump")
    /\ Instr("pump").op = "send"
    /\ published' = IF published < MaxBroadcastsL THEN published + 1 ELSE published
    /\ pc' = [pc EXCEPT !["pump"] = @ + 1]
    /\ UNCHANGED <<players, clients, nextAddr, hands, buffer, reply, game, play, emitted, context, held, waiters, last>>

\* cycle_game_state, `interval.tick().await`, and the return to the test once
\* the guards of the turn are dropped.
PumpTick ==
    /\ Running("pump")
    /\ \/ /\ Instr("pump").op = "tick"
          /\ pc' = [pc EXCEPT !["pump"] = @ + 1]
       \/ /\ Instr("pump").op = "again"
          /\ pc' = [pc EXCEPT !["pump"] = Instr("pump").to]
    /\ UNCHANGED <<players, clients, published, nextAddr, hands, buffer, reply, game, play, emitted, context, held, waiters, last>>

InitL ==
    /\ players = [p \in PlayerIds |-> 0]
    /\ clients = <<>>
    /\ published = 0
    /\ nextAddr = 1
    /\ hands = [p \in connected_players |-> 0]
    /\ buffer = NoBuffer
    /\ reply = NoReply
    /\ game = NewGame
    /\ play = NoPlay
    /\ emitted = NoPacket
    /\ context = NoContext
    /\ pc = [t \in Tasks |-> 1]
    /\ held = [t \in Tasks |-> <<>>]
    /\ waiters = <<>>
    /\ last = NoEvent

TaskStep(t) ==
    \/ LockAcquire(t)
    \/ LockWait(t)
    \/ LockRelease(t)
    \/ Run(t)
    \/ (t = "pump" /\ (PumpTest \/ PumpSend \/ PumpTick))

NextL ==
    \/ \E t \in Tasks : LockAcquire(t)
    \/ \E t \in Tasks : LockWait(t)
    \/ \E t \in Tasks : LockRelease(t)
    \/ \E t \in Tasks : Run(t)
    \/ PumpTest
    \/ PumpSend
    \/ PumpTick
    \/ EndGame

SpecL == InitL /\ [][NextL]_vars

\* The runtime runs every task that can take a step.
SpecLF == SpecL /\ \A t \in Tasks : WF_vars(TaskStep(t))

---------------------------------------------------------------------------
(* Properties of the handshake, checked under Spec *)

ConnectOk == last.op = "connect" /\ last.res = "Ok"

\* C1: when a Connect handshake succeeds for player p, the registry maps p to
\* the session just built, that session is connected and its read task has
\* been spawned; and every spawned read task comes to run, with the
\* broadcast subscriber started by then.
C1_ConnectRegistersSession ==
    /\ [](ConnectOk =>
            /\ last.sess = Len(clients)
            /\ players[last.pid] = last.sess
            /\ clients[last.sess].player = last.pid
            /\ clients[last.sess].connected
            /\ clients[last.sess].readTask = "spawned")
    /\ \A s \in 1..MaxSessions :
            (s \in Sessions /\ clients[s].readTask = "spawned")
                ~> (s \in Sessions /\ clients[s].readTask # "spawned"
                                     /\ clients[s].subTask # "none")

C1_Witness ==
    \E s \in Sessions :
        /\ players[clients[s].player] = s
        /\ clients[s].connected
        /\ clients[s].readTask = "running"
        /\ clients[s].subTask = "running"

\* C2: an entry of the session registry whose session is connected is not
\* replaced: handle_connect overwrites an entry only when the session it
\* holds has connected = FALSE.
C2_ReplaceOnlyDisconnected ==
    [][\A p \in PlayerIds :
          (players[p] # 0 /\ clients[players[p]].connected)
              => players'[p] = players[p]]_vars

\* C5: a Connect whose player_id is not in the roster (connected_players)
\* fails and registers no session.
C5_RosterOnly ==
    \A p \in PlayerIds \ connected_players :
        /\ players[p] = 0
        /\ ~(ConnectOk /\ last.pid = p)

\* C6: no session is ever built from the token of a player the auth service
\* reports as banned, and a Connect presenting such a token does not succeed.
C6_BannedNeverConnected ==
    \A s \in Sessions : ~IsBanned(clients[s].username)

---------------------------------------------------------------------------
(* Properties of the fan-out, checked under SpecB *)

\* The packets the receiver of session c has been moved past since it
\* subscribed, in the order of publication.
Consumed(c) == [i \in 1..(c.rx - c.sub - 1) |-> c.sub + i]

\* C7: for a session that is connected, every packet published on the
\* channel that its receiver has gone past is in its write stream exactly
\* once, and the write stream is in the order of publication; this at every
\* broadcast, not the first one only.
C7_BroadcastNoLoss ==
    \A s \in Sessions : clients[s].connected => clients[s].written = Consumed(clients[s])

\* C8: when the receiver of a session reports a lag, the session is treated
\* as disconnected: its connected flag is false after the subscriber handled
\* the lag.
C8_LagDisconnects ==
    (last.op = "tick" /\ last.res = "Lagged") => ~clients[last.sess].connected

---------------------------------------------------------------------------
(* Properties of reconnection and of the missed queue, checked under SpecQ *)

ReconnectOk == last.op = "reconnect" /\ last.res = "Ok"

\* C3: a step changes the transport (addr) of a session only if it is a
\* Reconnect whose authenticated player id equals the request's player_id and
\* whose player already has that session in the registry; a Reconnect that is
\* rejected changes no session's transport or connected flag and no registry
\* entry.
C3_ReconnectGuard ==
    [][/\ (\E s \in Sessions : clients'[s].addr # clients[s].addr)
           => /\ last'.op = "reconnect" /\ last'.res = "Ok"
              /\ last'.auth = last'.pid
              /\ players[last'.pid] # 0
              /\ players[last'.pid] = last'.sess
              /\ \A s \in Sessions \ {last'.sess} : clients'[s].addr = clients[s].addr
       /\ (last'.op = "reconnect" /\ last'.res # "Ok")
           => /\ players' = players
              /\ clients' = clients]_vars

C3_Witness ==
    /\ ReconnectOk
    /\ last.auth = last.pid
    /\ players[last.pid] = last.sess
    /\ clients[last.sess].addr = nextAddr - 1
    /\ clients[last.sess].addr # last.sess

\* C4: a successful reconnect changes, of the session, only addr, the read
\* half (the read loop on it) and connected, which becomes true; the session's
\* player, its missed queue, every other session, the registry and the game
\* state (every hand) are what they were.
C4_ReconnectFrame ==
    [][(last'.op = "reconnect" /\ last'.res = "Ok")
           => /\ players' = players
              /\ hands' = hands
              /\ published' = published
              /\ Len(clients') = Len(clients)
              /\ \A t \in Sessions \ {last'.sess} : clients'[t] = clients[t]
              /\ clients'[last'.sess].connected
              /\ clients'[last'.sess].player = clients[last'.sess].player
              /\ clients'[last'.sess].missed = clients[last'.sess].missed
              /\ clients'[last'.sess] =
                     [clients[last'.sess] EXCEPT !.addr = clients'[last'.sess].addr,
                                                 !.readTask = clients'[last'.sess].readTask,
                                                 !.connected = TRUE]]_vars

C4_Witness ==
    /\ ReconnectOk
    /\ clients[last.sess].connected
    /\ Len(clients[last.sess].missed) >= 3
    /\ clients[last.sess].player = last.pid

IsPrefix(a, b) == Len(a) <= Len(b) /\ a = SubSeq(b, 1, Len(a))

C10_MissedBounded ==
    /\ [](\A s \in Sessions : Len(clients[s].missed) <= 30)
    /\ [][(last'.op = "tick" /\ ~clients[last'.sess].connected)
             => clients'[last'.sess].missed =
                   Append(IF Len(clients[last'.sess].missed) = 30
                            THEN Tail(clients[last'.sess].missed)
                            ELSE clients[last'.sess].missed,
                          last'.pkt)]_vars

C10_Witness ==
    /\ last.op = "tick" /\ last.res = "QueuedDropOldest"
    /\ Len(clients[last.sess].missed) = 30
    /\ clients[last.sess].missed[30] = last.pkt
    /\ clients[last.sess].missed[1] = last.pkt - 29

---------------------------------------------------------------------------
(* Properties of the session's end of life, checked under Spec and SpecQ *)

\* C11: a session whose read loop has ended (zero-length read or read error)
\* has connected == false, so that the broadcasts published afterwards are
\* queued for it and not written to the dead transport.
C11_ClosedIsDisconnected ==
    \A s \in Sessions : clients[s].readTask = "exited" => ~clients[s].connected

---------------------------------------------------------------------------
(* Properties of the read path and of the wire format, checked under SpecW *)

\* C13: every send_packet call makes at least one and at most 3 write
\* attempts; it returns Ok right after the first attempt that succeeds (every
\* attempt before it failed) and returns PackageWriteError exactly when the
\* 3 attempts all failed.
C13_SendPacketThreeAttempts ==
    \A k \in 1..Len(reply.sends) :
        LET snd == reply.sends[k] IN
        /\ snd.attempts \in 1..3
        /\ \A j \in 1..(snd.attempts - 1) : ~WriteAt(reply.writes, snd.from + j)
        /\ snd.ok => WriteAt(reply.writes, snd.from + snd.attempts)
        /\ ~snd.ok <=> (\A j \in 1..3 : ~WriteAt(reply.writes, snd.from + j))
        /\ ~snd.ok => snd.attempts = 3

C13_Witness ==
    /\ reply.sends # <<>>
    /\ reply.sends[1].ok
    /\ reply.sends[1].attempts = 3
    /\ ~reply.writes[1] /\ ~reply.writes[2] /\ reply.writes[3]

\* C14: whenever send_packet has exhausted its attempts for a session, in the
\* read loop (a response) or in the subscriber (a broadcast), the session has
\* connected == false and the registry still holds its entry.
C14_ExhaustedSendDisconnects ==
    (last.res = "PackageWriteError")
        => /\ ~clients[last.sess].connected
           /\ players[clients[last.sess].player] # 0

\* A buffer has been handled by the read path of a session.
Handled == reply.op \in {"handle_incoming", "client_read"}

\* C15: when a buffer parses into a packet whose header checksum differs from
\* the XOR of its payload, the server sends an InvalidChecksum packet with
\* empty payload (bytes 0xFD, 0, 0, 0, 0, 0x0A) and the session is
\* disconnected (connected is false afterwards).
C15_BadChecksumDisconnects ==
    (Handled /\ reply.parsed.ok /\ ~reply.checkOk)
        => /\ reply.sends # <<>>
           /\ reply.sends[1].type = InvalidChecksum
           /\ reply.sends[1].bytes = <<253, 0, 0, 0, 0, 10>>
           /\ ~clients[reply.buffer.sess].connected

\* Bit k of x
Bit(x, k) == (x \div (2 ^ k)) % 2

RECURSIVE XorBits(_, _)
\* The 16-bit XOR of the bytes of p, bit by bit from bit k up: bit k is set
\* when an odd number of bytes have it set.
XorBits(p, k) ==
    IF k > 15 THEN 0
    ELSE (Cardinality({i \in 1..Len(p) : Bit(p[i], k) = 1}) % 2) * (2 ^ k)
         + XorBits(p, k + 1)

Parsed == reply.op # "-" /\ reply.parsed.ok

\* C17: a buffer whose header parses but which holds fewer payload bytes than
\* the header's payload_length is rejected, so the payload of every accepted
\* packet has exactly payload_length bytes.
C17_AcceptedPayloadHasDeclaredLength ==
    Parsed => Len(reply.parsed.val.payload)
                  = AsU16(reply.parsed.val.header.payload_length)

\* C18: Checksum::check(c, p) is true exactly when c equals the 16-bit XOR of
\* the bytes of p: it accepts the checksum Checksum::new(p) put in the header,
\* and it is false once a single bit of the payload or of the checksum field
\* has been flipped.
C18_CheckIffXor ==
    Parsed =>
        /\ reply.checkOk <=>
              (AsU16(reply.parsed.val.header.checksum)
                  = XorBits(reply.parsed.val.payload, 0))
        /\ reply.buffer.damage = NoDamage => reply.checkOk
        /\ reply.buffer.damage.kind \in {"payload", "checksum"} => ~reply.checkOk

C18_Witness ==
    /\ reply.op = "parse"
    /\ reply.parsed.ok
    /\ reply.buffer.damage = [kind |-> "checksum", at |-> 0, bit |-> 15]
    /\ reply.buffer.sentPayload = <<171, 1>>
    /\ ~reply.checkOk

\* C19: Checksum::new(p) is the XOR of all bytes of p, each widened to 16
\* bits: 0 for the empty payload, the byte itself for a payload of one byte.
C19_ChecksumIsXorOfBytes ==
    Parsed =>
        /\ reply.check = XorBits(reply.parsed.val.payload, 0)
        /\ reply.parsed.val.payload = <<>> => reply.check = 0
        /\ Len(reply.parsed.val.payload) = 1
              => reply.check = reply.parsed.val.payload[1]

C19_Witness ==
    /\ reply.op = "parse"
    /\ reply.parsed.ok
    /\ reply.parsed.val.payload = <<171, 171>>
    /\ reply.check = 0

\* C20: a Connect packet handled on a session that already has an
\* authenticated player is answered with AlreadyConnected and nothing else:
\* no connection is attempted and the player bound to the session is the one
\* bound before.
C20_SecondConnectRejected ==
    (/\ Handled
     /\ reply.parsed.ok
     /\ reply.checkOk
     /\ reply.parsed.val.header.header_type = Connect
     /\ reply.before # "-")
        => /\ reply.sends # <<>>
           /\ \A i \in 1..Len(reply.sends) : reply.sends[i].type = AlreadyConnected
           /\ clients[reply.buffer.sess].player = reply.before

\* C21: when an authenticated session receives a Disconnect packet, a
\* Disconnect acknowledgement with empty payload is sent and the session is
\* closed: connected is false afterwards, also when the acknowledgement was
\* written.
C21_DisconnectPacketCloses ==
    (/\ Handled
     /\ reply.parsed.ok
     /\ reply.checkOk
     /\ reply.parsed.val.header.header_type = Disconnect
     /\ reply.before # "-")
        => /\ Len(reply.sends) = 1
           /\ reply.sends[1].bytes = <<0, 0, 0, 0, 0, 10>>
           /\ ~clients[reply.buffer.sess].connected

----------------------------------------------------------------------------
(* Properties of the game, checked under SpecG *)

\* The errors of the gates of play_card that come before the card is resolved.
GateErrors == {"PlayerNotFound", "PlayerIdDoesNotMatch", "CardPlayedIsNotInHand"}

\* C22: play_card answers PlayerNotFound when there is no view for the
\* request's actor id; else PlayerIdDoesNotMatch when the caller's player id
\* is not the id of that view; else CardPlayedIsNotInHand when the card is not
\* in that view's hand. When it answers one of these, no script function has
\* been invoked and the game state is as it was.
C22_GatesInOrder ==
    (play.op = "play_card") =>
        LET views == play.before.views IN
        /\ (play.actor_id \notin DOMAIN views)
              => play.result = Err("PlayerNotFound")
        /\ (/\ play.actor_id \in DOMAIN views
            /\ play.client # views[play.actor_id].id)
              => play.result = Err("PlayerIdDoesNotMatch")
        /\ (/\ play.actor_id \in DOMAIN views
            /\ play.client = views[play.actor_id].id
            /\ play.card_id \notin views[play.actor_id].current_hand)
              => play.result = Err("CardPlayedIsNotInHand")
        /\ (~play.result.ok /\ play.result.err \in GateErrors)
              => /\ play.outcome = "returned"
                 /\ play.calls = <<>>
                 /\ play.applied = <<>>
                 /\ play.after = play.before

C22_Witness ==
    /\ play.op = "play_card"
    /\ play.client = "p2"
    /\ play.actor_id = "p1"
    /\ play.before.views["p1"].current_hand = {}
    /\ play.result = Err("PlayerIdDoesNotMatch")
    /\ play.calls = <<>>

\* The player whose turn it is: curr_turn names the colour, red_player and
\* blue_player the ids.
TurnPlayer(g) == IF g.curr_turn = "Red" THEN g.red_player ELSE g.blue_player

\* C23: a PlayCard request of a player whose turn it is not is rejected with
\* NotPlayerTurn before any script runs: scripts are only ever invoked for a
\* request of the player whose turn it is.
C23_OnlyTurnPlayerRunsScripts ==
    /\ (play.calls # <<>>) => (play.client = TurnPlayer(play.before))
    /\ (/\ play.op = "play_card"
        /\ play.actor_id \in DOMAIN play.before.views
        /\ play.client = play.before.views[play.actor_id].id
        /\ play.client # TurnPlayer(play.before))
          => play.result = Err("NotPlayerTurn")

\* b"Card played is not in hand", the text of CardPlayedIsNotInHand
CardPlayedIsNotInHandText ==
    <<67, 97, 114, 100, 32, 112, 108, 97, 121, 101, 100, 32, 105, 115, 32,
      110, 111, 116, 32, 105, 110, 32, 104, 97, 110, 100>>

\* C24: when the handling of a PlayCard packet meets a game-logic failure,
\* here a card that is not in the hand of the player who sent it, one packet
\* of type PlayCard carrying the text of the error is sent to that client.
C24_PlayCardFailureIsEchoed ==
    (/\ play.op = "handle_play_card"
     /\ \/ ~play.result.ok
        \/ play.client \notin DOMAIN play.before.views
        \/ play.card_id \notin play.before.views[play.client].current_hand)
        => /\ Len(play.sent) = 1
           /\ play.sent[1].header.header_type = PlayCard
           /\ play.result.err = "CardPlayedIsNotInHand"
                 => play.sent[1].payload = CardPlayedIsNotInHandText

\* The request passes the gates of play_card: the actor has a view, the
\* caller is that player, the card is in the hand.
PassesGates ==
    /\ play.op = "play_card"
    /\ play.actor_id \in DOMAIN play.before.views
    /\ play.client = play.before.views[play.actor_id].id
    /\ play.card_id \in play.before.views[play.actor_id].current_hand

\* C25: when the played card is not in full_cards, play_card finishes: if the
\* card service returns the card, the card is in full_cards afterwards and
\* its on_play triggers have been run; if the fetch fails, the result is
\* UnableToGetCardDetails. The handler neither waits for ever nor aborts.
C25_CacheMissIsResolved ==
    (PassesGates /\ play.card_id \notin play.before.full_cards)
        => /\ play.outcome = "returned"
           /\ (play.fetch = "Ok")
                 => /\ play.card_id \in play.after.full_cards
                    /\ play.calls # <<>>
           /\ (play.fetch # "Ok")
                 => play.result = Err("UnableToGetCardDetails")

\* The action lists hold a DealDamage of a positive amount against a player
\* who has a view with health left.
Damaging(g, lists) ==
    \E k \in 1..Len(lists) : \E j \in 1..Len(lists[k]) :
        /\ lists[k][j].type = "DealDamage"
        /\ lists[k][j].amount > 0
        /\ lists[k][j].target \in DOMAIN g.views
        /\ g.views[lists[k][j].target].health > 0

\* C26: for a PlayCard that passes all gates and runs to the end, the
\* functions of the card's on_play list have been invoked in list order, each
\* once; the action list each of them returned has been applied, in the same
\* order, before the next was invoked; and a list that deals damage has left
\* its mark on the game state.
C26_TriggersInOrderAndApplied ==
    (play.op # "-" /\ play.outcome = "returned" /\ play.result.ok /\ play.calls # <<>>)
        => /\ play.calls = on_play(play.card_id)
           /\ Len(play.applied) = Len(play.calls)
           /\ \A k \in 1..Len(play.applied) :
                 play.applied[k] = call_function_ctx(play.calls[k]).val
           /\ Damaging(play.before, play.applied)
                 => play.after.views # play.before.views

RECURSIVE ApplyAll(_, _, _)
\* The game state after apply_actions has been called with the lists from the
\* k-th on, one after the other.
ApplyAll(g, lists, k) ==
    IF k > Len(lists) THEN g ELSE ApplyAll(apply_actions(g, lists[k]), lists, k + 1)

\* The index of the first script of the list whose call fails, 0 if none.
FirstFailing(triggers) ==
    LET failing == {k \in 1..Len(triggers) : ~call_function_ctx(triggers[k]).ok} IN
    IF failing = {} THEN 0
    ELSE CHOOSE k \in failing : \A j \in failing : k <= j

\* C27: when the i-th on_play script call of a play fails, play_card returns
\* the error of that call at once: the scripts invoked are the first i of the
\* list, the i - 1 before it succeeded and their action lists were applied,
\* no script after i is invoked, and the game state is the one those
\* applications left (nothing is rolled back).
C27_FirstScriptErrorAborts ==
    (/\ PassesGates
     /\ play.card_id \in play.before.full_cards
     /\ Cardinality(DOMAIN play.before.views) >= 2
     /\ FirstFailing(on_play(play.card_id)) # 0)
        => LET i == FirstFailing(on_play(play.card_id)) IN
           /\ play.outcome = "returned"
           /\ play.result = call_function_ctx(on_play(play.card_id)[i])
           /\ play.calls = SubSeq(on_play(play.card_id), 1, i)
           /\ play.applied = [k \in 1..(i - 1) |-> call_function_ctx(play.calls[k]).val]
           /\ play.after = ApplyAll(play.before, play.applied, 1)

C27_Witness ==
    /\ play.op = "play_card"
    /\ play.card_id = "c5"
    /\ play.calls = <<"effects:smite", "cards:garbage">>
    /\ play.result = Err("InvalidGameActions")
    /\ play.applied = <<(<<DealDamage("p2", 40)>>)>>
    /\ play.outcome = "returned"

RECURSIVE HealthAfter(_, _, _, _, _)
\* max(0, health - amount) taken over every DealDamage against `target` in the
\* lists, from action j of list k on.
HealthAfter(health, target, lists, k, j) ==
    IF k > Len(lists) THEN health
    ELSE IF j > Len(lists[k]) THEN HealthAfter(health, target, lists, k + 1, 1)
    ELSE IF lists[k][j].type = "DealDamage" /\ lists[k][j].target = target
    THEN HealthAfter(IF health > lists[k][j].amount
                        THEN health - lists[k][j].amount ELSE 0,
                     target, lists, k, j + 1)
    ELSE HealthAfter(health, target, lists, k, j + 1)

\* C28: apply_actions with DealDamage{target, amount} lowers the health of
\* the named player by amount and never below zero: after the action lists of
\* a play have been applied, the health of every player is
\* max(0, health before - amount) taken over the DealDamage actions that name
\* the player.
C28_DealDamageClamped ==
    (play.op = "play_card" /\ play.applied # <<>>)
        => \A t \in DOMAIN play.before.views :
              play.after.views[t].health
                 = HealthAfter(play.before.views[t].health, t, play.applied, 1, 1)

\* C29: once `ongoing` is false the pump publishes no GameState packet in
\* any iteration that starts after the flag was cleared: no step taken from
\* a state where the flag is false publishes a packet.
C29_NoPublishAfterGameEnd ==
    [][~game.ongoing => published' = published]_vars

\* C30: no reachable failure makes a server task panic: a card missing from
\* the card cache, an unreachable card service or a game with fewer than two
\* player views ends the handling of a PlayCard request with a typed error,
\* never with a panic of the task.
C30_NoTaskPanics ==
    play.outcome # "panicked"

---------------------------------------------------------------------------
(* Further properties of the handshake, checked under Spec *)

\* C33: a Connect handshake binds a session to player_id X only if the
\* profile the auth service returns for the presented token has id X: every
\* session is registered under the player its token belongs to.
C33_SessionBoundToTokenOwner ==
    /\ \A s \in Sessions : clients[s].player = clients[s].username
    /\ ConnectOk => last.pid = last.auth

---------------------------------------------------------------------------
(* Further properties of the read path, checked under SpecW *)

\* C34: a packet whose payload fails the checksum comparison is never passed
\* to a packet handler: no handler is dispatched on it and the player bound
\* to the session is the one bound before the buffer was read.
C34_BadChecksumNotDispatched ==
    (Handled /\ reply.parsed.ok /\ ~reply.checkOk)
        => /\ reply.dispatched = "-"
           /\ clients[reply.buffer.sess].player = reply.before

---------------------------------------------------------------------------
(* Further properties of the missed queue, checked under SpecQ *)

\* C37: send_missed_packets removes a packet from the missed queue only if
\* that packet ends up written to the client: when a write fails during the
\* drain, the failed packet and all packets behind it are still in the
\* queue, in their original order, when the drain ends.
C37_DrainKeepsUnsentPackets ==
    [][(/\ last'.op = "tick"
        /\ clients[last'.sess].connected
        /\ Len(last'.sent) < Len(clients[last'.sess].missed))
           => clients'[last'.sess].missed =
                 SubSeq(clients[last'.sess].missed, Len(last'.sent) + 1,
                        Len(clients[last'.sess].missed))]_vars

---------------------------------------------------------------------------
(* Properties of the serializer, checked under SpecP *)

\* C40: for every packet built with Packet::new and serialized with
\* wrap_packet, the 16-bit payload_length field on the wire (bytes 1 and 2 of
\* the header, big endian) equals the number of payload bytes that follow
\* the header.
C40_LengthFieldIsPayloadSize ==
    emitted.op = "wrap"
        => from_be_bytes(emitted.bytes[2], emitted.bytes[3]) = emitted.len

---------------------------------------------------------------------------
(* Properties of the player table, checked under SpecA *)

\* C38: after any sequence of GameState::add_player calls, the players table
\* holds at most two player views and every key in it equals red_player or
\* blue_player; an add_player call made when both colours are already taken
\* adds no view.
C38_AtMostTwoColouredViews ==
    /\ Cardinality(DOMAIN game.views) <= 2
    /\ \A id \in DOMAIN game.views : id \in {game.red_player, game.blue_player}

\* C39: for every game state with two player views, the context
\* LuaContext::new builds has game_state.red_player equal to the view of the
\* state's red player and game_state.blue_player equal to the view of the
\* state's blue player, whatever the iteration order of the player-view map.
C39_ContextColoursMatchState ==
    (/\ context.op = "new"
     /\ DOMAIN context.game.views = {context.game.red_player, context.game.blue_player}
     /\ context.game.red_player # context.game.blue_player)
        => /\ context.game_state.red_player
                = context.game.views[context.game.red_player]
           /\ context.game_state.blue_player
                = context.game.views[context.game.blue_player]

---------------------------------------------------------------------------
(* Further properties of the session of client.rs, checked under Spec *)

\* C35: Client::disconnect always completes: whenever it has been called
\* from the read loop of a session (after a failed write), the session's
\* connected flag eventually becomes false.
C35_DisconnectCompletes ==
    \A s \in 1..MaxSessions :
        (s \in Sessions /\ clients[s].readTask = "blocked")
            ~> (s \in Sessions /\ ~clients[s].connected)

---------------------------------------------------------------------------
(* Properties of the locks of a match, checked under SpecL and SpecLF *)

\* The task is inside ScriptManager::call_function_ctx.
InScriptCall(t) == Running(t) /\ Instr(t).in_call

\* C31: at any time at most one call_function_ctx invocation is executing on
\* the match's script VM: the PlayCard handlers of two sessions are never
\* inside call_function_ctx at the same time.
C31_OneScriptCallAtATime ==
    Cardinality({t \in Tasks : InScriptCall(t)}) <= 1

\* The place of a lock in the order server registry, game_instance,
\* game_state, player_view, full_cards, script_vm, session.write_stream
\* (0: the lock is not in the order).
LockRank(lock) ==
    CASE lock = "game_state" -> 3
      [] lock \in {"player_views", "player_view_p1", "player_view_p2"} -> 4
      [] lock = "full_cards" -> 5
      [] lock \in {"script_manager", "core", "effects", "cards"} -> 6
      [] OTHER -> 0

\* C32: every task acquires locks in an order consistent with server
\* registry, game_instance, game_state, player_view, full_cards, script_vm,
\* session.write_stream: no task requests a lock that is earlier in this
\* order while it holds one that is later.
C32_LockOrderRespected ==
    \A t \in Tasks :
        (Running(t) /\ Instr(t).op = "acquire" /\ LockRank(Instr(t).lock) > 0)
            => \A i \in DOMAIN held[t] :
                  LockRank(held[t][i].lock) <= LockRank(Instr(t).lock)

\* The PlayCard handlers have returned: only the pump is left to hold a
\* guard of the game state.
HandlersReturned == \A t \in {"h1", "h2"} : pc[t] > Len(Program(t))

\* C36: while the broadcast pump is running and the match is ongoing, a task
\* that has requested the write lock of the game state eventually obtains
\* it (or the match ends): the pump does not keep the lock from it.
C36_WriterEventuallyAdmitted ==
    (IsWaiting("writer") /\ HandlersReturned /\ game.ongoing)
        ~> (held["writer"] # <<>> \/ ~game.ongoing)

====
